---- MODULE Spec2Model ----
(***************************************************************************)
(* The two example applications of log_manage_system:                      *)
(*   examples/fastapi-integration/main.py    (app "fastapi")               *)
(*   examples/multi-app-integration/main.py  (app "multi")                 *)
(* Each wires a structlog processor chain that contains a log-context      *)
(* enricher (add_trace_info / add_otel_context) and defines HTTP handlers  *)
(* that open spans and emit log records.                                   *)
(*                                                                         *)
(* Two specifications are defined:                                         *)
(*   EnricherSpec  the enricher and the processor chain as pure functions  *)
(*                 of (current span, log call), inputs drawn in its Init;  *)
(*   Spec          one application process: lifecycle, concurrently served *)
(*                 requests, handlers executed statement by statement.     *)
(***************************************************************************)
EXTENDS Integers, Sequences, FiniteSets, TLC

VARIABLES
  app,      \* which of the two programs this process runs
  config,   \* structlog / logging configuration, written at import time
  life,     \* lifecycle of the process
  sysout,   \* log calls made outside any request (__main__, startup, shutdown)
  reqs,     \* per request slot: the request's task-local state
  spans,    \* span key -> span object (all spans created so far)
  probe     \* EnricherSpec only: one enricher / log-call experiment

vars == <<app, config, life, sysout, reqs, spans, probe>>

progVars == <<app, config, life, sysout, reqs, spans>>

(***************************************************************************)
(* Bounds                                                                  *)
(***************************************************************************)
\* number of request slots (requests that may be in flight together)
MaxReq == 2

(***************************************************************************)
(* Program constants                                                       *)
(***************************************************************************)
\* format(span_context.trace_id, "032x")
TraceIdWidth == 32
\* format(span_context.span_id, "016x")
SpanIdWidth == 16

Apps == {"fastapi", "multi"}

(***************************************************************************)
(* Python's format(n, "0Wx"): lowercase hexadecimal, zero-padded on the    *)
(* left to a minimum of W characters. Strings are sequences of one-        *)
(* character strings.  Identifiers of the tracing library are 128-bit      *)
(* (trace) and 64-bit (span) unsigned integers, so their rendering never   *)
(* exceeds the width; the values used here are below 2^31.                 *)
(***************************************************************************)
HexChars ==
  <<"0","1","2","3","4","5","6","7","8","9","a","b","c","d","e","f">>

RECURSIVE ToHex(_)
ToHex(n) ==
  IF n < 16 THEN <<HexChars[n + 1]>>
  ELSE ToHex(n \div 16) \o <<HexChars[(n % 16) + 1]>>

RECURSIVE Zeros(_)
Zeros(k) == IF k <= 0 THEN <<>> ELSE <<"0">> \o Zeros(k - 1)

format(n, width) ==
  LET digits == ToHex(n)
  IN  Zeros(width - Len(digits)) \o digits

\* int(s, 16) restricted to lowercase digits; -1 when s is not such a string
HexDigitValue(c) ==
  IF \E i \in 1..16 : HexChars[i] = c
  THEN (CHOOSE i \in 1..16 : HexChars[i] = c) - 1
  ELSE -1

RECURSIVE HexValue(_)
HexValue(s) ==
  IF Len(s) = 0 THEN 0
  ELSE LET hi == HexValue(SubSeq(s, 1, Len(s) - 1))
           d  == HexDigitValue(s[Len(s)])
       IN  IF hi < 0 \/ d < 0 THEN -1 ELSE hi * 16 + d

IsLowerHex(s, width) ==
  /\ Len(s) = width
  /\ \A i \in 1..Len(s) : \E j \in 1..16 : HexChars[j] = s[i]

(***************************************************************************)
(* Span objects of the tracing library, as the program sees them.          *)
(*   sdk = TRUE   an SDK span (records until it is ended)                  *)
(*   sdk = FALSE  a NonRecordingSpan (sampled-out span, or INVALID_SPAN)   *)
(***************************************************************************)
MkSpan(tid, sid, flags, sdk, name, owner, parent) ==
  [trace_id |-> tid, span_id |-> sid, trace_flags |-> flags, sdk |-> sdk,
   ended |-> FALSE, name |-> name, owner |-> owner, parent |-> parent,
   attrs |-> {}, status |-> "UNSET", exceptions |-> <<>>]

\* what trace.get_current_span() returns when no span is attached
INVALID_SPAN == MkSpan(0, 0, 0, FALSE, "", 0, 0)

\* `if span:` -- the span classes define neither __bool__ nor __len__
Truthy(span) == TRUE

is_recording(span) == span.sdk /\ ~span.ended

get_span_context(span) ==
  [trace_id |-> span.trace_id, span_id |-> span.span_id,
   trace_flags |-> span.trace_flags]

\* Span.set_attribute / record_exception / set_status / end:
\* no-ops on a span that is not recording
set_attribute(span, key) ==
  IF is_recording(span) THEN [span EXCEPT !.attrs = @ \cup {key}] ELSE span

record_exception(span, excType) ==
  IF is_recording(span)
  THEN [span EXCEPT !.exceptions = Append(@, excType)] ELSE span

set_status_error(span) ==
  IF is_recording(span) /\ span.status # "OK"
  THEN [span EXCEPT !.status = "ERROR"] ELSE span

end_span(span) == [span EXCEPT !.ended = TRUE]

(***************************************************************************)
(* Event dictionaries: functions from key to value (a string, as above).   *)
(***************************************************************************)
EmptyDict == [k \in {} |-> <<>>]

SetKey(d, k, v) == [x \in DOMAIN d \cup {k} |-> IF x = k THEN v ELSE d[x]]

DelKey(d, k) == [x \in DOMAIN d \ {k} |-> d[x]]

Update(d, e) ==
  [x \in DOMAIN d \cup DOMAIN e |-> IF x \in DOMAIN e THEN e[x] ELSE d[x]]

\* the integer TraceFlags value as JSON renders it
FlagsText(f) == <<HexChars[f + 1]>>

\* what a processor leaves behind: the dict it returns, the span it was
\* given (a processor holds a reference to it), and whether it raised
Effect(event_dict, span) ==
  [raised |-> FALSE, event_dict |-> event_dict, span |-> span]

Raised(event_dict, span) ==
  [raised |-> TRUE, event_dict |-> event_dict, span |-> span]

(***************************************************************************)
(* The log-context enrichers.                                              *)
(***************************************************************************)
\* variant of add_trace_info that keeps a caller-supplied trace_id/span_id
add_trace_info_setdefault(span, event_dict) ==
  IF Truthy(span) /\ get_span_context(span).trace_id # 0
  THEN LET sc == get_span_context(span)
           d1 == IF "trace_id" \in DOMAIN event_dict THEN event_dict
                 ELSE SetKey(event_dict, "trace_id",
                             format(sc.trace_id, TraceIdWidth))
           d2 == IF "span_id" \in DOMAIN d1 THEN d1
                 ELSE SetKey(d1, "span_id", format(sc.span_id, SpanIdWidth))
       IN  Effect(d2, span)
  ELSE Effect(event_dict, span)

\* variant of add_trace_info that reads span.context, an attribute only
\* SDK spans have: AttributeError on a NonRecordingSpan
add_trace_info_context_attr(span, event_dict) ==
  IF ~span.sdk THEN Raised(event_dict, span)
  ELSE IF span.trace_id # 0
  THEN Effect(SetKey(SetKey(event_dict, "trace_id",
                            format(span.trace_id, TraceIdWidth)),
                     "span_id", format(span.span_id, SpanIdWidth)), span)
  ELSE Effect(event_dict, span)

\* fastapi-integration/main.py, add_trace_info
add_trace_info(span, event_dict) ==
  IF Truthy(span)
  THEN LET span_context == get_span_context(span)
       IN  IF span_context.trace_id # 0
           THEN Effect(SetKey(SetKey(event_dict, "trace_id",
                                     format(span_context.trace_id, TraceIdWidth)),
                              "span_id",
                              format(span_context.span_id, SpanIdWidth)),
                       span)
           ELSE Effect(event_dict, span)
  ELSE Effect(event_dict, span)

\* variant of add_otel_context that also marks the span as logged
add_otel_context_marks_span(span, event_dict) ==
  IF Truthy(span) /\ is_recording(span) /\ span.trace_id # 0
  THEN Effect(SetKey(SetKey(SetKey(event_dict, "trace_id",
                                   format(span.trace_id, TraceIdWidth)),
                            "span_id", format(span.span_id, SpanIdWidth)),
                     "trace_flags", FlagsText(span.trace_flags)),
              set_attribute(span, "log.emitted"))
  ELSE Effect(event_dict, span)

\* variant of add_otel_context that returns a fresh dict holding only the
\* trace fields
add_otel_context_fresh_dict(span, event_dict) ==
  IF Truthy(span) /\ is_recording(span) /\ span.trace_id # 0
  THEN Effect(SetKey(SetKey(SetKey(EmptyDict, "trace_id",
                                   format(span.trace_id, TraceIdWidth)),
                            "span_id", format(span.span_id, SpanIdWidth)),
                     "trace_flags", FlagsText(span.trace_flags)),
              span)
  ELSE Effect(event_dict, span)

\* multi-app-integration/main.py, add_otel_context
add_otel_context(span, event_dict) ==
  IF Truthy(span) /\ is_recording(span)
  THEN LET span_context == get_span_context(span)
       IN  IF span_context.trace_id # 0
           THEN Effect(SetKey(SetKey(SetKey(event_dict, "trace_id",
                                            format(span_context.trace_id,
                                                   TraceIdWidth)),
                                     "span_id",
                                     format(span_context.span_id, SpanIdWidth)),
                              "trace_flags",
                              FlagsText(span_context.trace_flags)),
                       span)
           ELSE Effect(event_dict, span)
  ELSE Effect(event_dict, span)

\* fastapi-integration/main.py, add_service_info
add_service_info(event_dict) ==
  SetKey(event_dict, "service_name", <<"fastapi-demo">>)

\* multi-app-integration/main.py, add_service_context
add_service_context(event_dict) ==
  Update(event_dict,
         [service_name |-> <<"multi-app-demo">>,
          service_version |-> <<"1.0.0">>,
          environment |-> <<"development">>])

Enricher(variant, span, event_dict) ==
  IF variant = "fastapi" THEN add_trace_info(span, event_dict)
  ELSE add_otel_context(span, event_dict)

EnricherName(variant) ==
  IF variant = "fastapi" THEN "add_trace_info" ELSE "add_otel_context"

ServiceInfoName(variant) ==
  IF variant = "fastapi" THEN "add_service_info" ELSE "add_service_context"

(***************************************************************************)
(* structlog.configure(...) and the root logger, per application.          *)
(***************************************************************************)
\* logging levels of the standard library
LevelNo(method_name) ==
  CASE method_name = "debug"   -> 10
    [] method_name = "info"    -> 20
    [] method_name = "warning" -> 30
    [] method_name = "error"   -> 40

Processors(variant) ==
  <<"filter_by_level", "add_logger_name", "add_log_level",
    "PositionalArgumentsFormatter", "TimeStamper",
    ServiceInfoName(variant), EnricherName(variant),
    "StackInfoRenderer", "format_exc_info", "JSONRenderer">>

\* root logger: level INFO; fastapi app: FileHandler + StreamHandler(stdout),
\* multi app: basicConfig with one StreamHandler
Config(variant) ==
  [processors |-> Processors(variant),
   root_level |-> LevelNo("info"),
   sinks      |-> IF variant = "fastapi" THEN {"app.log", "stdout"}
                  ELSE {"stderr"}]

(***************************************************************************)
(* One log call, logger.<method_name>(event, **kw), through the chain.     *)
(***************************************************************************)
\* json.dumps of the event dict: the set of its members
JSONRenderer(event_dict) == {<<k, event_dict[k]>> : k \in DOMAIN event_dict}

\* state threaded through the chain
ChainStart(span, event_dict) ==
  [event_dict |-> event_dict, span |-> span, dropped |-> FALSE,
   error |-> "none", applied |-> <<>>, line |-> {}, rendered |-> FALSE]

ApplyProcessor(cfg, name, method_name, st) ==
  LET st1 == [st EXCEPT !.applied = Append(@, name)]
      ed  == st.event_dict
  IN  CASE name = "filter_by_level" ->
             IF LevelNo(method_name) >= cfg.root_level THEN st1
             ELSE [st1 EXCEPT !.dropped = TRUE]
        [] name = "add_logger_name" ->
             [st1 EXCEPT !.event_dict = SetKey(ed, "logger", <<"main">>)]
        [] name = "add_log_level" ->
             [st1 EXCEPT !.event_dict = SetKey(ed, "level", <<method_name>>)]
        [] name = "PositionalArgumentsFormatter" ->
             [st1 EXCEPT !.event_dict = DelKey(ed, "positional_args")]
        [] name = "TimeStamper" ->
             [st1 EXCEPT !.event_dict = SetKey(ed, "timestamp", <<"now">>)]
        [] name = "add_service_info" ->
             [st1 EXCEPT !.event_dict = add_service_info(ed)]
        [] name = "add_service_context" ->
             [st1 EXCEPT !.event_dict = add_service_context(ed)]
        [] name = "add_trace_info" ->
             LET e == add_trace_info(st.span, ed)
             IN  [st1 EXCEPT !.event_dict = e.event_dict, !.span = e.span,
                             !.error = IF e.raised THEN "enricher" ELSE @]
        [] name = "add_otel_context" ->
             LET e == add_otel_context(st.span, ed)
             IN  [st1 EXCEPT !.event_dict = e.event_dict, !.span = e.span,
                             !.error = IF e.raised THEN "enricher" ELSE @]
        [] name = "StackInfoRenderer" ->
             [st1 EXCEPT !.event_dict = DelKey(ed, "stack_info")]
        [] name = "format_exc_info" ->
             IF "exc_info" \in DOMAIN ed
             THEN [st1 EXCEPT !.event_dict =
                     SetKey(DelKey(ed, "exc_info"), "exception", <<"traceback">>)]
             ELSE st1
        [] name = "JSONRenderer" ->
             [st1 EXCEPT !.line = JSONRenderer(ed), !.rendered = TRUE]

\* the chain stops at the first processor that drops the event or raises
RECURSIVE RunChain(_, _, _, _)
RunChain(cfg, i, method_name, st) ==
  IF i > Len(cfg.processors) \/ st.dropped \/ st.error # "none" THEN st
  ELSE RunChain(cfg, i + 1, method_name,
                ApplyProcessor(cfg, cfg.processors[i], method_name, st))

\* BoundLogger.<method_name>(event, **kw): `event` is the first positional
\* parameter, so a keyword named event is a TypeError at the call itself.
\* A record that was rendered is handed to every handler of the root logger.
LogCall(cfg, span, method_name, event, kw) ==
  IF "event" \in DOMAIN kw
  THEN [ChainStart(span, kw) EXCEPT !.error = "TypeError"]
         @@ [method |-> method_name, written |-> {}]
  ELSE LET st == RunChain(cfg, 1, method_name,
                          ChainStart(span, SetKey(kw, "event", event)))
       IN  st @@ [method |-> method_name,
                  written |-> IF st.rendered THEN cfg.sinks ELSE {}]

(***************************************************************************)
(* EnricherSpec: the enricher and the log call as functions of their       *)
(* inputs.  Init draws the variant, the current span, the level and the    *)
(* caller's keywords; the actions apply the enricher once, twice, or run   *)
(* the whole log call.                                                     *)
(***************************************************************************)
TraceIdPool == {43981, 2147483647}

SpanIdPool == {3054}

\* the spans trace.get_current_span() can return: INVALID_SPAN (nothing
\* attached), a NonRecordingSpan with a valid context (sampled out), an SDK
\* span (sampled or record-only), an SDK span that was already ended
ProbeSpans ==
  {INVALID_SPAN}
    \cup {MkSpan(t, s, 0, FALSE, "probe", 0, 0) :
            t \in TraceIdPool, s \in SpanIdPool}
    \cup {MkSpan(t, s, f, TRUE, "probe", 0, 0) :
            t \in TraceIdPool, s \in SpanIdPool, f \in {0, 1}}
    \cup {end_span(MkSpan(t, s, 1, TRUE, "probe", 0, 0)) :
            t \in TraceIdPool, s \in SpanIdPool}

ProbeKeys == {"user_id", "trace_id", "span_id", "trace_flags"}

\* keyword arguments of the log call: any subset of ProbeKeys
ProbeKwargs == {[k \in K |-> <<"caller">>] : K \in SUBSET ProbeKeys}

Methods == {"debug", "info", "warning", "error"}

NoEffect == Effect(EmptyDict, INVALID_SPAN)

NoCall == LogCall(Config("fastapi"), INVALID_SPAN, "debug", <<"none">>, EmptyDict)

ProbeIdle ==
  [phase |-> "idle", variant |-> "fastapi", span |-> INVALID_SPAN,
   method |-> "info", kw |-> EmptyDict, e1 |-> NoEffect, e2 |-> NoEffect,
   call |-> NoCall]

\* the dict the logger hands to the chain: the keywords plus the event
ProbeInput == SetKey(probe.kw, "event", <<"probe">>)

\* no exception in flight / none caught
NoExc == [type |-> "none", status |-> 0]

\* a request slot before its request arrives
IdleSlot ==
  [state |-> "idle", ep |-> "none", pc |-> 0, ctx |-> <<>>, blocks |-> <<>>,
   exc |-> NoExc, caught |-> NoExc, raisedBy |-> "none", ret |-> FALSE,
   status |-> 0, nspans |-> 0, out |-> <<>>, resp |-> EmptyDict,
   server |-> 0, arrival |-> "none"]

EInit ==
  /\ \E v \in Apps, sp \in ProbeSpans, m \in Methods, kw \in ProbeKwargs :
       probe = [ProbeIdle EXCEPT !.phase = "input", !.variant = v,
                                 !.span = sp, !.method = m, !.kw = kw]
  /\ app = probe.variant
  /\ config = Config(app)
  /\ life = "imported"
  /\ sysout = <<>>
  /\ reqs = [r \in 1..MaxReq |-> IdleSlot]
  /\ spans = [k \in {} |-> INVALID_SPAN]

HEnrich ==
  /\ probe.phase = "input"
  /\ probe' = [probe EXCEPT !.phase = "once",
                 !.e1 = Enricher(probe.variant, probe.span, ProbeInput)]
  /\ UNCHANGED progVars

HEnrichAgain ==
  /\ probe.phase = "once"
  /\ ~probe.e1.raised
  /\ probe' = [probe EXCEPT !.phase = "twice",
                 !.e2 = Enricher(probe.variant, probe.e1.span,
                                 probe.e1.event_dict)]
  /\ UNCHANGED progVars

HLogCall ==
  /\ probe.phase = "input"
  /\ probe' = [probe EXCEPT !.phase = "logged",
                 !.call = LogCall(config, probe.span, probe.method,
                                  <<"probe">>, probe.kw)]
  /\ UNCHANGED progVars

ENext == HEnrich \/ HEnrichAgain \/ HLogCall

EnricherSpec == EInit /\ [][ENext]_vars

(***************************************************************************)
(* Handlers as statement lists.  A statement is one source-level           *)
(* operation of a handler body; time.sleep calls have no effect on the     *)
(* state and are left out.                                                 *)
(***************************************************************************)
\* with tracer.start_as_current_span(name) [as span]:
SEnter(name) == [op |-> "enter", name |-> name]

\* normal end of a with block
SExit == [op |-> "exit"]

\* span.set_attribute(key, ...)
SAttr(key) == [op |-> "attr", key |-> key]

\* logger.<level>(event, **kw); dyn = "exc": error_type=type(e).__name__
SLog(level, event, kw) ==
  [op |-> "log", level |-> level, event |-> <<event>>, kw |-> kw,
   dyn |-> "none"]

SLogExc(level, event, kw) ==
  [op |-> "log", level |-> level, event |-> <<event>>, kw |-> kw,
   dyn |-> "exc"]

\* try: ... except Exception as e: (handler = first statement of the except
\* body)
STry(handler) == [op |-> "try", handler |-> handler]

\* normal end of a try body: continue after the except body
SEndTry(target) == [op |-> "endtry", target |-> target]

\* raise <type>(...)   (1 / 0 raises ZeroDivisionError)
SRaise(type, status) == [op |-> "raise", exc |-> [type |-> type, status |-> status]]

\* a call of a function defined under a bare @tracer.start_as_current_span
SCall(fn) == [op |-> "call", fn |-> fn]

\* span.record_exception(e)
SRecordException == [op |-> "record_exception"]

\* span.set_status(trace.Status(trace.StatusCode.ERROR))
SSetStatus == [op |-> "set_status"]

\* return {...}; ids: the body carries format(span...trace_id / span_id)
SReturn(ids) == [op |-> "return", ids |-> ids]

\* if datetime.now().second % 2 == 0: ... else: (target = first statement
\* of the else branch)
SIfClock(target) == [op |-> "ifclock", target |-> target]

\* if action_type == value: ... else: / end of a taken branch
SIfType(value, target) == [op |-> "iftype", value |-> value, target |-> target]

SJump(target) == [op |-> "jump", target |-> target]

V(x) == <<x>>

\* ---- fastapi-integration/main.py ----
fastapi_root ==
  << SLog("info", "root visited", [endpoint |-> V("/"), method |-> V("GET")]),
     SReturn(FALSE) >>

health_check ==
  << SLog("info", "health check",
          [endpoint |-> V("/health"), method |-> V("GET")]),
     SReturn(FALSE) >>

error_endpoint ==
  << SLog("error", "error endpoint called",
          [endpoint |-> V("/error"), error_type |-> V("demo")]),
     STry(4),
     SRaise("ZeroDivisionError", 0),
     SLog("error", "caught exception",
          [endpoint |-> V("/error"), error_type |-> V("ZeroDivisionError"),
           error_message |-> V("division by zero"), exc_info |-> V("True")]),
     SRaise("HTTPException", 500) >>

trace_example ==
  << SEnter("process_item"),
     SAttr("item.id"),
     SAttr("operation"),
     SLog("info", "start processing",
          [endpoint |-> V("/trace"), item_id |-> V("item"),
           operation |-> V("start")]),
     SEnter("validate_item"),
     SAttr("validation.type"),
     SLog("info", "validate item",
          [item_id |-> V("item"), operation |-> V("validate")]),
     SExit,
     SEnter("process_business_logic"),
     SAttr("business.type"),
     SLog("info", "run business logic",
          [item_id |-> V("item"), operation |-> V("business_logic")]),
     SExit,
     SLog("info", "processing complete",
          [endpoint |-> V("/trace"), item_id |-> V("item"),
           operation |-> V("complete")]),
     SReturn(TRUE) >>

metrics_example ==
  << SLog("debug", "debug message",
          [endpoint |-> V("/metrics"), level |-> V("debug")]),
     SLog("info", "info message",
          [endpoint |-> V("/metrics"), level |-> V("info"),
           user_count |-> V("42")]),
     SLog("warning", "warning message",
          [endpoint |-> V("/metrics"), level |-> V("warning"),
           memory_usage |-> V("85%")]),
     SReturn(FALSE) >>

fastapi_user_action ==
  << SEnter("user_action"),
     SAttr("user.id"),
     SAttr("action.type"),
     SLog("info", "user action",
          [endpoint |-> V("/user/{user_id}/action"), user_id |-> V("user"),
           action_type |-> V("type"), action_data |-> V("action")]),
     SLog("info", "user action done",
          [user_id |-> V("user"), action_type |-> V("type"),
           result |-> V("result")]),
     SReturn(FALSE) >>

\* ---- multi-app-integration/main.py ----
multi_root ==
  << SEnter("health_check"),
     SAttr("endpoint"),
     SAttr("operation.type"),
     SLog("info", "health check request",
          [endpoint |-> V("/"), method |-> V("GET")]),
     SReturn(FALSE) >>

get_user ==
  << SEnter("get_user"),
     SAttr("user.id"),
     SAttr("operation.type"),
     SLog("info", "get user request",
          [user_id |-> V("user"), endpoint |-> V("/api/users/{user_id}"),
           method |-> V("GET")]),
     SCall("simulate_db_query"),
     SCall("call_external_service"),
     SLog("info", "get user done",
          [user_id |-> V("user"), data_fields_count |-> V("2"),
           permissions_count |-> V("1")]),
     SReturn(FALSE) >>

multi_user_action ==
  << SEnter("user_action"),
     SAttr("user.id"),
     SAttr("action.type"),
     SAttr("operation.type"),
     SLog("info", "user action request",
          [user_id |-> V("user"), action_type |-> V("type"),
           action_data |-> V("action"),
           endpoint |-> V("/api/users/{user_id}/actions"),
           method |-> V("POST")]),
     SEnter("validate_permissions"),
     SCall("call_external_service"),
     SLog("info", "permissions validated",
          [user_id |-> V("user"), action_type |-> V("type")]),
     SExit,
     SEnter("execute_business_logic"),
     SIfType("purchase", 17),
     SCall("call_external_service"),
     SLog("info", "payment done",
          [user_id |-> V("user"), payment_status |-> V("success")]),
     SCall("simulate_db_query"),
     SLog("info", "user record updated", [user_id |-> V("user")]),
     SJump(22),
     SIfType("login", 21),
     SCall("simulate_db_query"),
     SLog("info", "login recorded", [user_id |-> V("user")]),
     SJump(22),
     SLog("warning", "unknown action type",
          [user_id |-> V("user"), action_type |-> V("type"),
           action_data |-> V("action")]),
     SExit,
     SEnter("send_notification"),
     SCall("call_external_service"),
     SLog("info", "notification sent",
          [user_id |-> V("user"), action_type |-> V("type")]),
     SExit,
     SLog("info", "user action completed",
          [user_id |-> V("user"), action_type |-> V("type"),
           processing_status |-> V("success"),
           trace_id |-> V("format(span.trace_id)")]),
     SReturn(TRUE) >>

error_demo ==
  << SEnter("error_demo"),
     SAttr("operation.type"),
     SLog("info", "error demo request", [endpoint |-> V("/api/error-demo")]),
     STry(9),
     SIfClock(7),
     SRaise("ValueError", 0),
     SCall("call_external_service"),
     SEndTry(13),
     SRecordException,
     SSetStatus,
     SLogExc("error", "operation failed",
             [error_message |-> V("str(e)"),
              endpoint |-> V("/api/error-demo"), exc_info |-> V("True")]),
     SRaise("HTTPException", 500) >>

metrics_demo ==
  << SEnter("metrics_demo"),
     SAttr("operation.type"),
     SLog("info", "metrics demo", [endpoint |-> V("/api/metrics-demo")]),
     SLog("debug", "debug info",
          [endpoint |-> V("/api/metrics-demo"),
           debug_info |-> V("detailed_processing_info")]),
     SLog("info", "processing started",
          [operation |-> V("metrics_collection"), start_time |-> V("now")]),
     SLog("info", "processing in progress",
          [progress |-> V("50"), estimated_remaining_time |-> V("5s")]),
     SLog("info", "processing done",
          [operation |-> V("metrics_collection"), end_time |-> V("now"),
           processing_time |-> V("0.3s"), records_processed |-> V("100")]),
     SLog("warning", "performance warning",
          [metric_type |-> V("response_time"), value |-> V("300ms"),
           threshold |-> V("200ms"),
           recommendation |-> V("consider_optimization")]),
     SReturn(FALSE) >>

Endpoints(a) ==
  IF a = "fastapi"
  THEN {"root", "health_check", "error_endpoint", "trace_example",
        "metrics_example", "user_action"}
  ELSE {"root", "get_user", "user_action", "error_demo", "metrics_demo"}

Program(a, ep) ==
  IF a = "fastapi"
  THEN CASE ep = "root"            -> fastapi_root
         [] ep = "health_check"    -> health_check
         [] ep = "error_endpoint"  -> error_endpoint
         [] ep = "trace_example"   -> trace_example
         [] ep = "metrics_example" -> metrics_example
         [] ep = "user_action"     -> fastapi_user_action
  ELSE CASE ep = "root"            -> multi_root
         [] ep = "get_user"        -> get_user
         [] ep = "user_action"     -> multi_user_action
         [] ep = "error_demo"      -> error_demo
         [] ep = "metrics_demo"    -> metrics_demo

(***************************************************************************)
(* Spec: one application process.                                          *)
(*                                                                         *)
(* The current span is looked up in a context that belongs to the task     *)
(* serving the request (ctx of the slot); the instrumented framework       *)
(* attaches a server span to it before the handler runs.  The sampler is   *)
(* the provider's default (parent-based, always on): a request without an  *)
(* inbound trace context starts a sampled trace, one with an inbound       *)
(* context continues that trace and is recorded only if the parent was     *)
(* sampled; spans of an unsampled trace are NonRecordingSpans that carry   *)
(* the trace identifier and a span identifier of their own.                *)
(***************************************************************************)
Slots == 1..MaxReq

UpstreamTraceIds == {2147483647}

Arrivals == {"none", "sampled", "unsampled"}

\* identifiers the id generator hands out: distinct per span, non-zero
NewSpanId(r, k) == (r * 16 + k) * 256 + 205

NewTraceId(r) == 43776 + r

Last(seq) == seq[Len(seq)]

Front(seq) == SubSeq(seq, 1, Len(seq) - 1)

\* a context lookup that is global to the process instead of the task:
\* the span on top of the context of the highest slot in flight
CurrentKey_process_global(r) ==
  LET live == {q \in Slots : reqs[q].ctx # <<>>}
  IN  IF live = {} THEN 0
      ELSE LET q == CHOOSE x \in live : \A y \in live : y <= x
           IN  Last(reqs[q].ctx)

\* key of the span attached to the context of request r's task (0: none)
CurrentKey(r) == IF reqs[r].ctx = <<>> THEN 0 ELSE Last(reqs[r].ctx)

\* trace.get_current_span() evaluated in request r
get_current_span(r) ==
  IF CurrentKey(r) = 0 THEN INVALID_SPAN ELSE spans[CurrentKey(r)]

\* context.detach that leaves the context as it is
Detach_keeps(ctx) == ctx

\* context.detach(token) at the end of a with block: back to the context
\* that was current when the block was entered
Detach(ctx) == Front(ctx)

\* the span bound by the innermost open `with ... as span`
WithSpan(r) ==
  LET b == reqs[r].blocks
      w == {i \in 1..Len(b) : b[i].kind = "with"}
  IN  IF w = {} THEN 0
      ELSE b[CHOOSE i \in w : \A j \in w : j <= i].span

Stmt(r) == Program(app, reqs[r].ep)[reqs[r].pc]

\* request r is about to execute a statement of kind op
At(r, op) ==
  /\ reqs[r].state = "active"
  /\ reqs[r].exc = NoExc
  /\ ~reqs[r].ret
  /\ reqs[r].pc <= Len(Program(app, reqs[r].ep))
  /\ Stmt(r).op = op

\* a child (or server) span the tracer starts under the given parent context
StartSpan(r, k, name, parent) ==
  MkSpan(parent.trace_id, NewSpanId(r, k), parent.trace_flags,
         parent.trace_flags = 1, name, r, parent.span_id)

\* the inbound trace context of a request, as the propagator extracts it
InboundContext(r, arrival, upstream) ==
  CASE arrival = "none"      -> [trace_id |-> NewTraceId(r), span_id |-> 0,
                                 trace_flags |-> 1]
    [] arrival = "sampled"   -> [trace_id |-> upstream, span_id |-> 1,
                                 trace_flags |-> 1]
    [] arrival = "unsampled" -> [trace_id |-> upstream, span_id |-> 1,
                                 trace_flags |-> 0]

\* one entry of a log: the log call's result and the key of the span that
\* was attached to the caller's own context when the call was made
LogEntry(call, key) ==
  [cur |-> key,
   recording |-> key # 0 /\ is_recording(spans[key]),
   method |-> call.method, dropped |-> call.dropped, error |-> call.error,
   applied |-> call.applied, event_dict |-> call.event_dict,
   rendered |-> call.rendered, written |-> call.written]

Init ==
  /\ app \in Apps
  /\ config = Config(app)
  /\ life = "imported"
  /\ sysout = <<>>
  /\ reqs = [r \in Slots |-> IdleSlot]
  /\ spans = [k \in {} |-> INVALID_SPAN]
  /\ probe = ProbeIdle

\* ---- lifecycle ----
\* if __name__ == "__main__": logger.info(..., host=..., port=...)
MainLog ==
  /\ life = "imported"
  /\ life' = "main"
  /\ sysout' = Append(sysout,
       LogEntry(LogCall(config, INVALID_SPAN, "info", <<"starting server">>,
                        [host |-> V("0.0.0.0"), port |-> V("8000")]), 0))
  /\ UNCHANGED <<app, config, reqs, spans, probe>>

\* keywords of the log call in startup_event / shutdown_event
LifecycleKw(a, which) ==
  IF a = "fastapi"
  THEN [event |-> V(IF which = "startup" THEN "app_startup" ELSE "app_shutdown")]
  ELSE [service_name |-> V("multi-app-demo"), time |-> V("now")]

\* @app.on_event("startup"): the server runs it before it serves; an
\* exception in it fails the startup
Startup ==
  /\ life \in {"imported", "main"}
  /\ LET call == LogCall(config, INVALID_SPAN, "info", <<"app startup">>,
                         LifecycleKw(app, "startup"))
     IN  /\ sysout' = Append(sysout, LogEntry(call, 0))
         /\ life' = IF call.error = "none" THEN "serving" ELSE "startup_failed"
  /\ UNCHANGED <<app, config, reqs, spans, probe>>

\* the app object served by a host that sends no lifespan events
ServeWithoutLifespan ==
  /\ life = "imported"
  /\ life' = "serving_bare"
  /\ UNCHANGED <<app, config, sysout, reqs, spans, probe>>

\* @app.on_event("shutdown")
Shutdown ==
  /\ life = "serving"
  /\ \A r \in Slots : reqs[r].state # "active"
  /\ life' = "stopped"
  /\ sysout' = Append(sysout,
       LogEntry(LogCall(config, INVALID_SPAN, "info", <<"app shutdown">>,
                        LifecycleKw(app, "shutdown")), 0))
  /\ UNCHANGED <<app, config, reqs, spans, probe>>

\* ---- a request ----
\* FastAPIInstrumentor: a server span is started from the inbound context
\* and attached to the request's context before the handler runs
Arrive(r) ==
  /\ life \in {"serving", "serving_bare"}
  /\ reqs[r].state = "idle"
  /\ \E ep \in Endpoints(app), arrival \in Arrivals, up \in UpstreamTraceIds :
       LET sp == StartSpan(r, 0, "server", InboundContext(r, arrival, up))
       IN  /\ spans' = (sp.span_id :> sp) @@ spans
           /\ reqs' = [reqs EXCEPT ![r] =
                 [IdleSlot EXCEPT !.state = "active", !.ep = ep, !.pc = 1,
                                  !.ctx = <<sp.span_id>>,
                                  !.server = sp.span_id,
                                  !.arrival = arrival]]
  /\ UNCHANGED <<app, config, life, sysout, probe>>

\* with tracer.start_as_current_span(name): start a child of the current
\* span and attach it
StmtEnter(r) ==
  /\ At(r, "enter")
  /\ LET k  == reqs[r].nspans + 1
         sp == StartSpan(r, k, Stmt(r).name, get_current_span(r))
     IN  /\ spans' = (sp.span_id :> sp) @@ spans
         /\ reqs' = [reqs EXCEPT ![r].nspans = k,
                                 ![r].ctx = Append(@, sp.span_id),
                                 ![r].blocks =
                                   Append(@, [kind |-> "with",
                                              span |-> sp.span_id,
                                              handler |-> 0]),
                                 ![r].pc = @ + 1]
  /\ UNCHANGED <<app, config, life, sysout, probe>>

\* a with block ends normally: end the span, detach it
StmtExit(r) ==
  /\ At(r, "exit")
  /\ LET b == Last(reqs[r].blocks)
     IN  /\ spans' = [spans EXCEPT ![b.span] = end_span(@)]
         /\ reqs' = [reqs EXCEPT ![r].ctx = Detach(@),
                                 ![r].blocks = Front(@),
                                 ![r].pc = @ + 1]
  /\ UNCHANGED <<app, config, life, sysout, probe>>

StmtAttr(r) ==
  /\ At(r, "attr")
  /\ spans' = [spans EXCEPT ![WithSpan(r)] = set_attribute(@, Stmt(r).key)]
  /\ reqs' = [reqs EXCEPT ![r].pc = @ + 1]
  /\ UNCHANGED <<app, config, life, sysout, probe>>

\* a log call of the handler; the enricher holds the current span object
StmtLog(r) ==
  /\ At(r, "log")
  /\ LET st   == Stmt(r)
         kw   == IF st.dyn = "exc"
                 THEN SetKey(st.kw, "error_type", V(reqs[r].caught.type))
                 ELSE st.kw
         key  == CurrentKey(r)
         call == LogCall(config, get_current_span(r), st.level, st.event, kw)
         own  == IF reqs[r].ctx = <<>> THEN 0 ELSE Last(reqs[r].ctx)
     IN  /\ spans' = IF key = 0 THEN spans
                     ELSE [spans EXCEPT ![key] = call.span]
         /\ reqs' = [reqs EXCEPT
               ![r].out = Append(@, LogEntry(call, own)),
               ![r].exc = IF call.error = "none" THEN NoExc
                          ELSE [type |-> "TypeError", status |-> 0],
               ![r].raisedBy = IF call.error = "none" THEN @ ELSE "logger",
               ![r].pc = @ + 1]
  /\ UNCHANGED <<app, config, life, sysout, probe>>

StmtTry(r) ==
  /\ At(r, "try")
  /\ reqs' = [reqs EXCEPT ![r].blocks =
                            Append(@, [kind |-> "try", span |-> 0,
                                       handler |-> Stmt(r).handler]),
                          ![r].pc = @ + 1]
  /\ UNCHANGED <<app, config, life, sysout, spans, probe>>

StmtRaise(r) ==
  /\ At(r, "raise")
  /\ reqs' = [reqs EXCEPT ![r].exc = Stmt(r).exc,
                          ![r].raisedBy = "handler"]
  /\ UNCHANGED <<app, config, life, sysout, spans, probe>>

\* a call whose failure is swallowed at the call site: the handler goes on
\* with the next statement
StmtCall_recovers(r) ==
  /\ At(r, "call")
  /\ reqs' = [reqs EXCEPT ![r].raisedBy = Stmt(r).fn,
                          ![r].pc = @ + 1]
  /\ UNCHANGED <<app, config, life, sysout, spans, probe>>

\* simulate_db_query and call_external_service are defined under a bare
\* @tracer.start_as_current_span: the name bound at module level is the
\* context manager start_as_current_span(<function>) returned, and calling
\* a (generator) context manager is its decorator form, __call__(func),
\* which takes one argument.  Both call sites pass two: TypeError, before
\* any span is started and before the function body runs.
StmtCall(r) ==
  /\ At(r, "call")
  /\ reqs' = [reqs EXCEPT ![r].exc = [type |-> "TypeError", status |-> 0],
                          ![r].raisedBy = Stmt(r).fn]
  /\ UNCHANGED <<app, config, life, sysout, spans, probe>>

StmtRecordException(r) ==
  /\ At(r, "record_exception")
  /\ spans' = [spans EXCEPT ![WithSpan(r)] =
                 record_exception(@, reqs[r].caught.type)]
  /\ reqs' = [reqs EXCEPT ![r].pc = @ + 1]
  /\ UNCHANGED <<app, config, life, sysout, probe>>

StmtSetStatus(r) ==
  /\ At(r, "set_status")
  /\ spans' = [spans EXCEPT ![WithSpan(r)] = set_status_error(@)]
  /\ reqs' = [reqs EXCEPT ![r].pc = @ + 1]
  /\ UNCHANGED <<app, config, life, sysout, probe>>

\* datetime.now().second % 2 == 0
StmtIfClock(r) ==
  /\ At(r, "ifclock")
  /\ \E even \in BOOLEAN :
       reqs' = [reqs EXCEPT ![r].pc = IF even THEN @ + 1 ELSE Stmt(r).target]
  /\ UNCHANGED <<app, config, life, sysout, spans, probe>>

\* the response body of a return statement
ResponseBody(r, ids) ==
  IF ids
  THEN [trace_id |-> format(spans[WithSpan(r)].trace_id, TraceIdWidth),
        span_id  |-> format(spans[WithSpan(r)].span_id, SpanIdWidth)]
  ELSE EmptyDict

StmtReturn(r) ==
  /\ At(r, "return")
  /\ reqs' = [reqs EXCEPT ![r].ret = TRUE,
                          ![r].resp = ResponseBody(r, Stmt(r).ids)]
  /\ UNCHANGED <<app, config, life, sysout, spans, probe>>

\* leaving the innermost open block with an exception in flight or on
\* return.  A with block of start_as_current_span records the exception
\* and sets the error status (its defaults), ends the span and detaches
\* it; a try block whose body raised continues at its except clause.
Unwind(r) ==
  /\ reqs[r].state = "active"
  /\ reqs[r].exc # NoExc \/ reqs[r].ret
  /\ reqs[r].blocks # <<>>
  /\ LET b == Last(reqs[r].blocks)
         raising == reqs[r].exc # NoExc
     IN  IF b.kind = "with"
         THEN /\ spans' = [spans EXCEPT ![b.span] =
                   IF raising
                   THEN end_span(set_status_error(
                          record_exception(@, reqs[r].exc.type)))
                   ELSE end_span(@)]
              /\ reqs' = [reqs EXCEPT ![r].ctx = Detach(@),
                                      ![r].blocks = Front(@)]
         ELSE /\ spans' = spans
              /\ reqs' = [reqs EXCEPT
                    ![r].blocks = Front(@),
                    ![r].caught = IF raising THEN reqs[r].exc ELSE @,
                    ![r].exc = NoExc,
                    ![r].pc = IF raising THEN b.handler ELSE @]
  /\ UNCHANGED <<app, config, life, sysout, probe>>

\* the framework turns the outcome into a response: the returned body as
\* 200, an HTTPException as its status code, any other exception as 500;
\* the server span is ended and detached
Finish(r) ==
  /\ reqs[r].state = "active"
  /\ reqs[r].exc # NoExc \/ reqs[r].ret
  /\ reqs[r].blocks = <<>>
  /\ spans' = [spans EXCEPT ![reqs[r].server] = end_span(@)]
  /\ reqs' = [reqs EXCEPT
        ![r].state = "done",
        ![r].ctx = Detach(@),
        ![r].status = IF reqs[r].ret THEN 200
                      ELSE IF reqs[r].exc.type = "HTTPException"
                      THEN reqs[r].exc.status ELSE 500]
  /\ UNCHANGED <<app, config, life, sysout, probe>>

Step(r) ==
  \/ Arrive(r)
  \/ StmtEnter(r)
  \/ StmtExit(r)
  \/ StmtAttr(r)
  \/ StmtLog(r)
  \/ StmtTry(r)
  \/ StmtRaise(r)
  \/ StmtCall(r)
  \/ StmtRecordException(r)
  \/ StmtSetStatus(r)
  \/ StmtIfClock(r)
  \/ StmtReturn(r)
  \/ Unwind(r)
  \/ Finish(r)

Next ==
  \/ MainLog
  \/ Startup
  \/ ServeWithoutLifespan
  \/ Shutdown
  \/ \E r \in Slots : Step(r)

Spec == Init /\ [][Next]_vars

(***************************************************************************)
(* Properties of the enricher and of the log call (EnricherSpec)           *)
(***************************************************************************)
RecordingValid(span) == is_recording(span) /\ span.trace_id # 0

\* d carries the identifiers of span: 32 and 16 lowercase hexadecimal
\* characters whose values are the span's trace and span identifier
CarriesIdsOf(d, span) ==
  /\ "trace_id" \in DOMAIN d
  /\ "span_id" \in DOMAIN d
  /\ IsLowerHex(d["trace_id"], 32)
  /\ HexValue(d["trace_id"]) = span.trace_id
  /\ IsLowerHex(d["span_id"], 16)
  /\ HexValue(d["span_id"]) = span.span_id

\* a key the enricher wrote: new in the output, or with a new value
Wrote(in, out, k) ==
  k \in DOMAIN out /\ (k \notin DOMAIN in \/ out[k] # in[k])

TraceKeys == {"trace_id", "span_id", "trace_flags"}

\* C1: while a recording span with a non-zero trace ID is current, the
\* record leaving the enricher (and the record that is rendered) carries
\* trace_id and span_id of that span as 32 and 16 lowercase hex characters,
\* whatever trace_id/span_id keyword the caller passed.
C1_TraceFieldsMatchActiveSpan ==
  RecordingValid(probe.span) =>
    /\ probe.phase = "once" => CarriesIdsOf(probe.e1.event_dict, probe.span)
    /\ (probe.phase = "logged" /\ probe.call.rendered)
         => CarriesIdsOf(probe.call.event_dict, probe.span)

C1_Witness ==
  /\ probe.phase = "once"
  /\ RecordingValid(probe.span)
  /\ {"trace_id", "span_id"} \subseteq DOMAIN probe.kw
  /\ probe.e1.event_dict["trace_id"] # probe.kw["trace_id"]
  /\ Len(probe.e1.event_dict["trace_id"]) = 32

\* C3 (as claimed): in every case other than "a recording span with a
\* non-zero trace identifier is current" the enricher returns the record
\* unchanged, for both variants.
C3_UnchangedUnlessRecording ==
  (probe.phase = "once" /\ ~RecordingValid(probe.span))
    => probe.e1.event_dict = ProbeInput

\* C4: the enricher never raises, whatever the current span is (absent,
\* zero trace ID, non-recording, recording, ended), and with no active span
\* it returns the record as it got it.
C4_EnricherNeverRaises ==
  /\ probe.phase \in {"once", "twice"} =>
       /\ ~probe.e1.raised
       /\ probe.span = INVALID_SPAN => probe.e1.event_dict = ProbeInput
  /\ probe.phase = "twice" => ~probe.e2.raised
  /\ probe.phase = "logged" => probe.call.error # "enricher"

C4_Witness ==
  /\ probe.phase = "once"
  /\ probe.span = INVALID_SPAN
  /\ ~probe.e1.raised
  /\ probe.e1.event_dict = ProbeInput

\* C5: with the current span held fixed, enriching twice gives the record
\* that enriching once gives, and no application of the enricher (alone or
\* inside a log call) changes the span.
C5_IdempotentAndSpanUntouched ==
  /\ probe.phase \in {"once", "twice"} => probe.e1.span = probe.span
  /\ probe.phase = "twice" =>
       /\ probe.e2.event_dict = probe.e1.event_dict
       /\ probe.e2.span = probe.span
  /\ probe.phase = "logged" => probe.call.span = probe.span

C5_Witness ==
  /\ probe.phase = "twice"
  /\ RecordingValid(probe.span)
  /\ probe.e1.event_dict # ProbeInput
  /\ probe.e2.event_dict = probe.e1.event_dict

\* number of times processor `name` occurs in the sequence `applied`
Occurrences(applied, name) ==
  Cardinality({i \in 1..Len(applied) : applied[i] = name})

IndexOf(applied, name) ==
  IF \E i \in 1..Len(applied) : applied[i] = name
  THEN CHOOSE i \in 1..Len(applied) : applied[i] = name
  ELSE 0

\* C6: the enricher only adds: every input key is an output key, keys other
\* than trace_id/span_id (and trace_flags in the multi-app variant) keep
\* their value, the multi-app variant writes trace_flags exactly when it
\* writes trace_id and span_id, and a rendered record went through the
\* enricher exactly once, before it was rendered.
C6_OnlyAddsAndOnce ==
  /\ probe.phase = "once" =>
       LET in  == ProbeInput
           out == probe.e1.event_dict
           own == IF probe.variant = "multi" THEN TraceKeys
                  ELSE {"trace_id", "span_id"}
       IN  /\ DOMAIN in \subseteq DOMAIN out
           /\ DOMAIN out \subseteq DOMAIN in \cup own
           /\ \A k \in DOMAIN in \ own : out[k] = in[k]
           /\ Wrote(in, out, "trace_id") <=> Wrote(in, out, "span_id")
           /\ probe.variant = "multi" =>
                (Wrote(in, out, "trace_flags") <=> Wrote(in, out, "trace_id"))
  /\ (probe.phase = "logged" /\ probe.call.rendered) =>
       LET a == probe.call.applied
           e == EnricherName(probe.variant)
       IN  /\ Occurrences(a, e) = 1
           /\ IndexOf(a, e) < IndexOf(a, "JSONRenderer")
           /\ Occurrences(a, "JSONRenderer") = 1

C6_Witness ==
  /\ probe.phase = "once"
  /\ probe.variant = "multi"
  /\ "user_id" \in DOMAIN probe.kw
  /\ Wrote(ProbeInput, probe.e1.event_dict, "trace_flags")
  /\ probe.e1.event_dict["user_id"] = probe.kw["user_id"]

(***************************************************************************)
(* Properties of the application process (Spec)                            *)
(***************************************************************************)
\* the log entries of request r
Entries(r) == {reqs[r].out[i] : i \in 1..Len(reqs[r].out)}

HasTraceFields(e) == {"trace_id", "span_id"} \subseteq DOMAIN e.event_dict

HasNoTraceField(e) ==
  "trace_id" \notin DOMAIN e.event_dict /\ "span_id" \notin DOMAIN e.event_dict

\* C2 (as claimed): an emitted record contains trace_id and span_id if and
\* only if an active recording span existed at the time of the log call;
\* records of log calls made with no active span (__main__, startup,
\* shutdown) contain neither field.
C2_TraceFieldsIffRecordingSpan ==
  /\ \A r \in Slots : \A e \in Entries(r) :
       e.rendered => (HasTraceFields(e) <=> e.recording)
  /\ \A i \in 1..Len(sysout) :
       sysout[i].rendered => HasNoTraceField(sysout[i])

\* C7 (as claimed): every log call made by a handler, whatever its level,
\* passes through the enricher after the service-info processor and before
\* JSON serialization, and is then written to the sinks.
C7_EveryLogCallReachesEnricher ==
  \A r \in Slots : \A e \in Entries(r) :
    LET a == e.applied
    IN  /\ IndexOf(a, ServiceInfoName(app)) > 0
        /\ IndexOf(a, ServiceInfoName(app)) < IndexOf(a, EnricherName(app))
        /\ IndexOf(a, EnricherName(app)) < IndexOf(a, "JSONRenderer")
        /\ e.written = config.sinks

ErrorEntries(r) == {e \in Entries(r) : e.rendered /\ e.method = "error"}

SpansNamed(r, name) ==
  {k \in DOMAIN spans : spans[k].owner = r /\ spans[k].name = name}

\* C8 (as claimed): an exception that leaves call_external_service is the
\* 503 HTTPException of its failure branch, raised after the exception was
\* recorded on the current span, the span's status set to ERROR and the
\* error record emitted; a finished error_demo request (recorded trace) has
\* the exception on the error_demo span with status ERROR, an error record,
\* and status 500; a finished GET /error has status 500 and exactly two
\* error records.
C8_InjectedErrorsRecorded ==
  \A r \in Slots :
    /\ (reqs[r].exc # NoExc /\ reqs[r].raisedBy = "call_external_service") =>
         /\ reqs[r].exc = [type |-> "HTTPException", status |-> 503]
         /\ \E e \in ErrorEntries(r) :
              /\ "error_type" \in DOMAIN e.event_dict
              /\ e.event_dict["error_type"] = V("service_unavailable")
    /\ (app = "multi" /\ reqs[r].ep = "error_demo" /\ reqs[r].state = "done") =>
         /\ reqs[r].status = 500
         /\ ErrorEntries(r) # {}
         /\ reqs[r].arrival # "unsampled" =>
              \A k \in SpansNamed(r, "error_demo") :
                spans[k].status = "ERROR" /\ spans[k].exceptions # <<>>
    /\ (app = "fastapi" /\ reqs[r].ep = "error_endpoint"
          /\ reqs[r].state = "done") =>
         /\ reqs[r].status = 500
         /\ Cardinality({i \in 1..Len(reqs[r].out) :
                           reqs[r].out[i].rendered
                           /\ reqs[r].out[i].method = "error"}) = 2

\* every record of request r carries the identifiers of the span that was
\* current in r's own context when the log call was made
OwnSpanOnly(r) ==
  \A e \in Entries(r) :
    e.rendered =>
      /\ e.cur # 0
      /\ spans[e.cur].owner = r
      /\ e.recording => HasTraceFields(e)
      /\ "trace_id" \in DOMAIN e.event_dict
           => CarriesIdsOf(e.event_dict, spans[e.cur])
      /\ \A k \in DOMAIN spans :
           ("span_id" \in DOMAIN e.event_dict /\ spans[k].owner # r)
             => e.event_dict["span_id"] # format(spans[k].span_id, SpanIdWidth)

\* C9: under any interleaving of concurrently served requests every log
\* record carries the trace_id and span_id of the span current in the
\* request that made the call, never those of another request, and the
\* configuration written at process start is never written again.
C9_RequestsIsolated ==
  /\ [](\A r \in Slots : OwnSpanOnly(r))
  /\ [][config' = config /\ app' = app]_vars

C9_Witness ==
  \E r, q \in Slots :
    /\ r # q
    /\ reqs[r].state = "active" /\ reqs[q].state = "active"
    /\ \E e \in Entries(r), f \in Entries(q) :
         /\ HasTraceFields(e) /\ HasTraceFields(f)
         /\ e.event_dict["trace_id"] = f.event_dict["trace_id"]
         /\ e.event_dict["span_id"] # f.event_dict["span_id"]

\* the records of request r whose operation keyword is op
OpEntries(r, op) ==
  {e \in Entries(r) : "operation" \in DOMAIN e.event_dict
                      /\ e.event_dict["operation"] = V(op)}

Open(r, name) == {k \in SpansNamed(r, name) : ~spans[k].ended}

SpanIdText(k) == format(spans[k].span_id, SpanIdWidth)

\* C10: within one GET /trace/{item_id} request the current span follows
\* stack discipline and the records reflect it.
C10_TraceExampleStackDiscipline ==
  \A r \in Slots :
    (app = "fastapi" /\ reqs[r].ep = "trace_example") =>
      LET P == SpansNamed(r, "process_item")
          N == SpansNamed(r, "validate_item")
          B == SpansNamed(r, "process_business_logic")
          own == IF reqs[r].ctx = <<>> THEN 0 ELSE Last(reqs[r].ctx)
      IN  /\ Cardinality(P) <= 1 /\ Cardinality(N) <= 1 /\ Cardinality(B) <= 1
          \* the records carry the span that was current
          /\ \A e \in OpEntries(r, "start") \cup OpEntries(r, "complete") :
               \E k \in P : e.event_dict["span_id"] = SpanIdText(k)
          /\ \A e \in OpEntries(r, "validate") :
               \E k \in N : e.event_dict["span_id"] = SpanIdText(k)
          /\ \A e \in OpEntries(r, "business_logic") :
               \E k \in B : e.event_dict["span_id"] = SpanIdText(k)
          \* one trace
          /\ \A e, f \in Entries(r) :
               /\ HasTraceFields(e)
               /\ e.event_dict["trace_id"] = f.event_dict["trace_id"]
          \* nested spans: children of process_item, one after the other,
          \* only while process_item is open
          /\ \A k \in N \cup B : \E q \in P :
               spans[k].parent = spans[q].span_id
          /\ (Open(r, "validate_item") # {}
                \/ Open(r, "process_business_logic") # {})
               => Open(r, "process_item") # {}
          /\ B # {} => (N # {} /\ Open(r, "validate_item") = {})
          \* the current span
          /\ \A k \in Open(r, "validate_item")
                   \cup Open(r, "process_business_logic") : own = k
          /\ (Open(r, "validate_item") = {}
                /\ Open(r, "process_business_logic") = {})
               => \A k \in Open(r, "process_item") : own = k
          \* the finished request
          /\ reqs[r].state = "done" =>
               /\ reqs[r].status = 200
               /\ Len(reqs[r].out) = 4
               /\ reqs[r].out[1] \in OpEntries(r, "start")
               /\ reqs[r].out[2] \in OpEntries(r, "validate")
               /\ reqs[r].out[3] \in OpEntries(r, "business_logic")
               /\ reqs[r].out[4] \in OpEntries(r, "complete")
               /\ \A i \in {1, 4} :
                    /\ reqs[r].resp["trace_id"]
                         = reqs[r].out[i].event_dict["trace_id"]
                    /\ reqs[r].resp["span_id"]
                         = reqs[r].out[i].event_dict["span_id"]

C10_Witness ==
  \E r \in Slots :
    /\ app = "fastapi" /\ reqs[r].ep = "trace_example"
    /\ reqs[r].state = "done"
    /\ Len(reqs[r].out) = 4
    /\ reqs[r].resp["span_id"] = reqs[r].out[4].event_dict["span_id"]
    /\ reqs[r].out[2].event_dict["span_id"] # reqs[r].out[1].event_dict["span_id"]
    /\ reqs[r].out[3].event_dict["span_id"] # reqs[r].out[2].event_dict["span_id"]

\* ---- POST /api/users/{user_id}/actions (multi-app-integration) ----
StepNames ==
  <<"validate_permissions", "execute_business_logic", "send_notification">>

IsUserAction(r) == app = "multi" /\ reqs[r].ep = "user_action"

\* a call of call_external_service or simulate_db_query made by request r
\* has failed
CallFailed(r) == reqs[r].raisedBy \in {"call_external_service",
                                       "simulate_db_query"}

\* statements of the given kind that precede statement pc of the handler
Before(pc, op) ==
  {i \in 1..Len(multi_user_action) : i < pc /\ multi_user_action[i].op = op}

\* the records of request r whose event is ev
EventEntries(r, ev) ==
  {i \in 1..Len(reqs[r].out) : reqs[r].out[i].event_dict["event"] = <<ev>>}

\* what holds of a user_action request in every state
UserActionState(r) ==
  LET U == SpansNamed(r, "user_action")
      S(i) == SpansNamed(r, StepNames[i])
  IN  \* no step is attempted twice, each in a child span of user_action
      /\ Cardinality(U) <= 1
      /\ \A i \in 1..3 :
           /\ Cardinality(S(i)) <= 1
           /\ \A k \in S(i) : \E u \in U :
                /\ spans[k].parent = spans[u].span_id
                /\ spans[k].trace_id = spans[u].trace_id
                /\ (~spans[k].ended => ~spans[u].ended)
      \* fixed order: a step starts only after the one before it has ended
      /\ \A i \in 2..3 : \A k \in S(i) : \E j \in S(i - 1) :
           spans[j].ended /\ spans[j].span_id < spans[k].span_id
      \* a failed call aborts the request at the statement of the call
      /\ CallFailed(r) =>
           /\ multi_user_action[reqs[r].pc].op = "call"
           /\ reqs[r].nspans = Cardinality(Before(reqs[r].pc, "enter"))
           /\ Len(reqs[r].out) <= Cardinality(Before(reqs[r].pc, "log"))
           /\ ~reqs[r].ret
           /\ reqs[r].resp = EmptyDict
           /\ reqs[r].status # 200
           /\ reqs[r].state = "done" => reqs[r].status \in {500, 503}
      \* the user-record update only after process_payment succeeded
      /\ \A i \in EventEntries(r, "user record updated") :
           \E j \in EventEntries(r, "payment done") : j < i
      \* a completed response: every step ran, no call failed
      /\ (reqs[r].ret \/ reqs[r].status = 200) =>
           /\ ~CallFailed(r)
           /\ \A i \in 1..3 : \E k \in S(i) : spans[k].ended
           /\ EventEntries(r, "user action completed") # {}

\* no retry and no recovery: once a call has failed the request executes no
\* further statement (it only leaves its open with blocks and is answered)
UserActionStep(r) ==
  (IsUserAction(r) /\ CallFailed(r)) =>
    /\ reqs'[r].pc = reqs[r].pc
    /\ reqs'[r].nspans = reqs[r].nspans
    /\ reqs'[r].out = reqs[r].out
    /\ reqs'[r].raisedBy = reqs[r].raisedBy
    /\ reqs'[r].ep = reqs[r].ep
    /\ ~reqs'[r].ret
    /\ reqs'[r].exc # NoExc
    /\ \A k \in DOMAIN spans' \ DOMAIN spans : spans'[k].owner # r

====
